---------------------------- MODULE Spec2Model ----------------------------
(***************************************************************************)
(* A model of src/app.py: a Streamlit script that is re-executed from its  *)
(* first line on every user interaction.  It reads four widgets, decodes   *)
(* the uploaded image, runs a Haar-cascade face detector on its grayscale  *)
(* version, draws a rectangle per detected region on a copy of the image   *)
(* and renders images, metrics, coordinates and a download button.         *)
(*                                                                         *)
(* Strings are sequences of one-character strings.  An image is a record   *)
(* [mode, px] where px maps <<x, y>> to the pixel's channel tuple.         *)
(***************************************************************************)
EXTENDS Integers, Sequences, FiniteSets, TLC

(***************************************************************************)
(* Bounds of the model.                                                    *)
(***************************************************************************)
\* longest color string enumerated for hex_to_bgr
MaxLen == 8
\* width and height of the model's images, in pixels
Width == 6
Height == 6
\* last reading of the wall clock
MaxClock == 1

(***************************************************************************)
(* Python strings and int(s, 16)                                           *)
(***************************************************************************)
HexDigits == <<"0", "1", "2", "3", "4", "5", "6", "7", "8", "9",
               "a", "b", "c", "d", "e", "f", "A", "B", "C", "D", "E", "F">>

IsHexDigit(c) == \E i \in 1..Len(HexDigits) : HexDigits[i] = c

\* the value of one hex digit, either case
DigitValue(c) ==
    LET i == CHOOSE k \in 1..Len(HexDigits) : HexDigits[k] = c
    IN  IF i <= 16 THEN i - 1 ELSE i - 7

IsSpace(c) == c \in {" ", "\t", "\n"}

\* s[a:b] of Python, for 0 <= a <= b: the bounds are clamped to the string
Slice(s, a, b) ==
    LET hi == IF b < Len(s) THEN b ELSE Len(s)
    IN  IF a >= hi THEN <<>> ELSE SubSeq(s, a + 1, hi)

\* str.lstrip('#'): every leading '#' is removed
DropOneHash(s) == IF s # <<>> /\ Head(s) = "#" THEN Tail(s) ELSE s

RECURSIVE LStripHash(_)
LStripHash(s) ==
    IF s # <<>> /\ Head(s) = "#" THEN LStripHash(Tail(s)) ELSE s

\* str.strip() as int() applies it: leading and trailing whitespace removed
RECURSIVE LStripSpace(_)
LStripSpace(s) ==
    IF s # <<>> /\ IsSpace(Head(s)) THEN LStripSpace(Tail(s)) ELSE s

RECURSIVE RStripSpace(_)
RStripSpace(s) ==
    IF s # <<>> /\ IsSpace(s[Len(s)])
    THEN RStripSpace(SubSeq(s, 1, Len(s) - 1))
    ELSE s

\* the digits of a literal: hex digits, single underscores between them only
\* (after a base prefix one leading underscore is allowed)
DigitsOK(d, afterPrefix) ==
    /\ d # <<>>
    /\ \A i \in 1..Len(d) : IsHexDigit(d[i]) \/ d[i] = "_"
    /\ d[Len(d)] # "_"
    /\ afterPrefix \/ d[1] # "_"
    /\ \A i \in 1..(Len(d) - 1) : ~(d[i] = "_" /\ d[i + 1] = "_")

RECURSIVE DigitsValue(_, _)
DigitsValue(d, acc) ==
    IF d = <<>> THEN acc
    ELSE IF Head(d) = "_" THEN DigitsValue(Tail(d), acc)
    ELSE DigitsValue(Tail(d), 16 * acc + DigitValue(Head(d)))

\* int(s, 16): [ok, val]; ok = FALSE stands for ValueError
PyIntBase16(s) ==
    LET t      == RStripSpace(LStripSpace(s))
        signed == t # <<>> /\ Head(t) \in {"+", "-"}
        neg    == t # <<>> /\ Head(t) = "-"
        u      == IF signed THEN Tail(t) ELSE t
        pre    == Len(u) >= 2 /\ u[1] = "0" /\ u[2] \in {"x", "X"}
        d      == IF pre THEN SubSeq(u, 3, Len(u)) ELSE u
    IN  IF DigitsOK(d, pre)
        THEN [ok |-> TRUE,
              val |-> IF neg THEN 0 - DigitsValue(d, 0) ELSE DigitsValue(d, 0)]
        ELSE [ok |-> FALSE, val |-> 0]

(***************************************************************************)
(* hex_to_bgr, lines 55-59.  The result is [raised, value]: raised is the  *)
(* exception that leaves the call ("" when it returns) and value the       *)
(* returned tuple.                                                         *)
(***************************************************************************)
Returned(v) == [raised |-> "", value |-> v]
Raised(e) == [raised |-> e, value |-> <<>>]

\* line 58: bgr = (rgb[2], rgb[1], rgb[0])
KeepRGBOrder(rgb) == rgb
ReorderToBGR(rgb) == <<rgb[3], rgb[2], rgb[1]>>

hex_to_bgr(hex_color) ==
    LET h   == LStripHash(hex_color)
        p   == [k \in 1..3 |-> PyIntBase16(Slice(h, 2 * (k - 1), 2 * k))]
    IN  IF \A k \in 1..3 : p[k].ok
        THEN Returned(ReorderToBGR(<<p[1].val, p[2].val, p[3].val>>))
        ELSE Raised("ValueError")


(***************************************************************************)
(* Images.  PIL modes: "RGB" (3 channels), "RGBA" (4), "L" (1, which       *)
(* numpy holds as a 2-D array); OpenCV arrays: "BGR", "GRAY".              *)
(***************************************************************************)
Coords == (0..(Width - 1)) \X (0..(Height - 1))

NoImage == [mode |-> "none", px |-> <<>>]

\* the uploads of the model; NoFile is the empty uploader
NoFile == "none"
Files == {"face.jpg", "logo.png", "scan.png", "broken.jpg"}

\* Image.open(uploaded_file), line 70
ImageOpen(f) ==
    CASE f = "face.jpg" ->
           Returned([mode |-> "RGB",
                     px |-> [c \in Coords |->
                               <<200 - 20 * c[1], 30 * c[2], 90>>]])
      [] f = "logo.png" ->
           Returned([mode |-> "RGBA",
                     px |-> [c \in Coords |->
                               <<10 * c[1], 40, 5 * c[2], 255 - c[1]>>]])
      [] f = "scan.png" ->
           Returned([mode |-> "L",
                     px |-> [c \in Coords |-> <<25 * c[1] + c[2]>>]])
      [] OTHER -> Raised("UnidentifiedImageError")

\* cv2.cvtColor(np.array(image), cv2.COLOR_RGB2BGR), line 73: 3 or 4 input
\* channels give 3 output channels (an alpha channel is dropped); any other
\* channel count is rejected
cvtColor_RGB2BGR(img) ==
    IF img.mode \in {"RGB", "RGBA"}
    THEN Returned([mode |-> "BGR",
                   px |-> [c \in DOMAIN img.px |->
                             <<img.px[c][3], img.px[c][2], img.px[c][1]>>]])
    ELSE Raised("cv2.error")

\* cv2.cvtColor(opencv_image, cv2.COLOR_BGR2GRAY), line 87: 8-bit fixed point
\* luma, Y = (1868 B + 9617 G + 4899 R + 2^13) >> 14
cvtColor_BGR2GRAY(img) ==
    [mode |-> "GRAY",
     px |-> [c \in DOMAIN img.px |->
               <<(1868 * img.px[c][1] + 9617 * img.px[c][2]
                    + 4899 * img.px[c][3] + 8192) \div 16384>>]]

\* cv2.cvtColor(result_image, cv2.COLOR_BGR2RGB) and Image.fromarray,
\* lines 105-106
RelabelAsRGB(img) == [mode |-> "RGB", px |-> img.px]
cvtColor_BGR2RGB(img) ==
    [mode |-> "RGB",
     px |-> [c \in DOMAIN img.px |->
               <<img.px[c][3], img.px[c][2], img.px[c][1]>>]]

(***************************************************************************)
(* The detector.  cv2's cascade classifier is an external capability; it   *)
(* is modelled as a fixed function of the grayscale image and the two      *)
(* parameters.  Every candidate region carries the number of neighbouring  *)
(* detections that support it and the coarsest scale step that still finds *)
(* it; the minimum-size floor of line 94 is part of the opaque detector.   *)
(* A region is <<x, y, w, h>>.                                             *)
(***************************************************************************)
Candidates(g) ==
    IF g.px[<<0, 0>>][1] >= 50
    THEN << [box |-> <<0, 0, 4, 4>>, votes |-> 7, coarsest |-> 20],
            [box |-> <<3, 3, 2, 2>>, votes |-> 3, coarsest |-> 13],
            [box |-> <<0, 1, 3, 4>>, votes |-> 1, coarsest |-> 11] >>
    ELSE << [box |-> <<1, 0, 4, 5>>, votes |-> 5, coarsest |-> 13] >>

RECURSIVE Keep(_, _, _)
Keep(cs, scaleFactor, minNeighbors) ==
    IF cs = <<>> THEN <<>>
    ELSE IF Head(cs).votes >= minNeighbors /\ scaleFactor <= Head(cs).coarsest
         THEN <<Head(cs).box>> \o Keep(Tail(cs), scaleFactor, minNeighbors)
         ELSE Keep(Tail(cs), scaleFactor, minNeighbors)

\* face_cascade.detectMultiScale(gray, scaleFactor, minNeighbors, minSize)
detectMultiScale(g, scaleFactor, minNeighbors) ==
    Keep(Candidates(g), scaleFactor, minNeighbors)

(***************************************************************************)
(* Drawing.  cv2.rectangle(img, (x, y), (x+w, y+h), color, 2) paints the   *)
(* outline of the rectangle whose opposite corners are the two points,     *)
(* Thickness pixels wide, clipped to the image; channel values saturate    *)
(* to 8 bits.                                                              *)
(***************************************************************************)
Thickness == 2

Sat8(v) == IF v < 0 THEN 0 ELSE IF v > 255 THEN 255 ELSE v

OutlinePixels(box) ==
    LET x0 == box[1]
        y0 == box[2]
        x1 == box[1] + box[3]
        y1 == box[2] + box[4]
    IN  { c \in Coords :
            /\ x0 <= c[1] /\ c[1] <= x1 /\ y0 <= c[2] /\ c[2] <= y1
            /\ \/ c[1] - x0 < Thickness \/ x1 - c[1] < Thickness
               \/ c[2] - y0 < Thickness \/ y1 - c[2] < Thickness }

rectangle(img, box, color) ==
    [img EXCEPT !.px =
        [c \in DOMAIN img.px |->
           IF c \in OutlinePixels(box)
           THEN <<Sat8(color[1]), Sat8(color[2]), Sat8(color[3])>>
           ELSE img.px[c]]]

\* the loop of lines 101-102: the image after the calls, and their number
RECURSIVE DrawLoop(_, _, _, _)
DrawLoop(img, fs, color, calls) ==
    IF fs = <<>> THEN [img |-> img, calls |-> calls]
    ELSE DrawLoop(rectangle(img, Head(fs), color), Tail(fs), color, calls + 1)


(***************************************************************************)
(* The state of the program.                                               *)
(***************************************************************************)
VARIABLES
    scale_factor,    \* slider of lines 30-37, in tenths (13 is 1.3)
    min_neighbors,   \* slider of lines 39-45
    rect_color,      \* color picker of lines 48-52: the string it delivers
    uploaded_file,   \* file uploader of lines 62-66
    cascade_data,    \* the installed detector data (environment)
    clock,           \* the wall clock (environment)
    pc,              \* where the script run stands; "idle" between runs
    outcome,         \* how the last run ended
    exc,             \* the exception in flight or reported
    image,           \* line 70
    opencv_image,    \* line 73: a reference into buf
    gray,            \* line 87
    faces,           \* line 90
    result_image,    \* line 98: a reference into buf
    bgr_color,       \* line 99
    result_pil,      \* line 106
    buf,             \* the numpy pixel buffers, by reference
    page,            \* the elements rendered by this run, in order
    detect_calls,    \* calls of detectMultiScale in this run
    rects_drawn,     \* calls of cv2.rectangle in this run
    failed_at,       \* history: the stage at which this run raised
    prev_failed,     \* history: whether the run before this one raised
    last             \* history: the run before, when it had the same inputs

widgets == <<scale_factor, min_neighbors, rect_color, uploaded_file>>
environment == <<cascade_data, clock>>
locals == <<image, opencv_image, gray, faces, result_image, bgr_color,
            result_pil, buf>>
history == <<failed_at, prev_failed, last>>
vars == <<widgets, environment, pc, outcome, exc, locals, page,
          detect_calls, rects_drawn, history>>

\* the values the widgets offer
ScaleFactors == {11, 13, 20}
MinNeighbors == {1, 5, 10}
Green == <<"#", "0", "0", "F", "F", "0", "0">>
Blue == <<"#", "0", "0", "0", "0", "f", "f">>
NotAColor == <<"#", "G", "G", "0", "0", "0", "0">>
Colors == {Green, Blue, NotAColor}
CascadeStates == {"installed", "file_missing", "no_data_dir"}

NoRef == "none"
NoBuffers == [r \in {"opencv_image", "copy"} |-> NoImage]
NoColor == Returned(<<>>)
NoLast == [valid |-> FALSE, faces |-> <<>>, result |-> NoImage, stamp |-> 0]

\* one rendered element
Element(kind, num, img, text, box) ==
    [kind |-> kind, num |-> num, img |-> img, text |-> text, box |-> box]

Count(pg, kind) == Cardinality({i \in 1..Len(pg) : pg[i].kind = kind})
Has(pg, kind) == \E i \in 1..Len(pg) : pg[i].kind = kind
The(pg, kind) == pg[CHOOSE i \in 1..Len(pg) : pg[i].kind = kind]

(***************************************************************************)
(* A script run starts with an empty namespace and an empty page.          *)
(***************************************************************************)
StartRunKeepingError ==
    /\ pc' = "ingest"
    /\ outcome' = outcome
    /\ exc' = exc
    /\ image' = NoImage
    /\ opencv_image' = NoRef
    /\ gray' = NoImage
    /\ faces' = <<>>
    /\ result_image' = NoRef
    /\ bgr_color' = NoColor
    /\ result_pil' = NoImage
    /\ buf' = NoBuffers
    /\ page' = <<>>
    /\ detect_calls' = 0
    /\ rects_drawn' = 0
    /\ failed_at' = failed_at
    /\ prev_failed' = (failed_at # "")

StartRun ==
    /\ pc' = "ingest"
    /\ outcome' = "running"
    /\ exc' = ""
    /\ image' = NoImage
    /\ opencv_image' = NoRef
    /\ gray' = NoImage
    /\ faces' = <<>>
    /\ result_image' = NoRef
    /\ bgr_color' = NoColor
    /\ result_pil' = NoImage
    /\ buf' = NoBuffers
    /\ page' = <<>>
    /\ detect_calls' = 0
    /\ rects_drawn' = 0
    /\ failed_at' = ""
    /\ prev_failed' = (failed_at # "")

Init ==
    /\ scale_factor = 13
    /\ min_neighbors = 5
    /\ rect_color = Green
    /\ uploaded_file = NoFile
    /\ cascade_data \in CascadeStates
    /\ clock = 0
    /\ pc = "ingest"
    /\ outcome = "running"
    /\ exc = ""
    /\ image = NoImage
    /\ opencv_image = NoRef
    /\ gray = NoImage
    /\ faces = <<>>
    /\ result_image = NoRef
    /\ bgr_color = NoColor
    /\ result_pil = NoImage
    /\ buf = NoBuffers
    /\ page = <<>>
    /\ detect_calls = 0
    /\ rects_drawn = 0
    /\ failed_at = ""
    /\ prev_failed = FALSE
    /\ last = NoLast

(***************************************************************************)
(* User interactions: each changes one widget and reruns the script.       *)
(***************************************************************************)
SetScaleFactor ==
    /\ pc = "idle"
    /\ \E v \in ScaleFactors \ {scale_factor} : scale_factor' = v
    /\ UNCHANGED <<min_neighbors, rect_color, uploaded_file, environment>>
    /\ last' = NoLast
    /\ StartRun

SetMinNeighbors ==
    /\ pc = "idle"
    /\ \E v \in MinNeighbors \ {min_neighbors} : min_neighbors' = v
    /\ UNCHANGED <<scale_factor, rect_color, uploaded_file, environment>>
    /\ last' = NoLast
    /\ StartRun

PickColor ==
    /\ pc = "idle"
    /\ \E v \in Colors \ {rect_color} : rect_color' = v
    /\ UNCHANGED <<scale_factor, min_neighbors, uploaded_file, environment>>
    /\ last' = NoLast
    /\ StartRun

Upload ==
    /\ pc = "idle"
    /\ \E f \in (Files \cup {NoFile}) \ {uploaded_file} : uploaded_file' = f
    /\ UNCHANGED <<scale_factor, min_neighbors, rect_color, environment>>
    /\ last' = NoLast
    /\ StartRun

\* a click on the download button reruns the script with every widget as it is
ClickDownload ==
    /\ pc = "idle"
    /\ Has(page, "download_button")
    /\ UNCHANGED <<widgets, environment>>
    /\ last' = [valid |-> TRUE, faces |-> faces, result |-> result_pil,
                 stamp |-> The(page, "download_button").num]
    /\ StartRun


(***************************************************************************)
(* The environment.                                                        *)
(***************************************************************************)
Tick ==
    /\ clock < MaxClock
    /\ clock' = clock + 1
    /\ UNCHANGED <<widgets, cascade_data, pc, outcome, exc, locals, page,
                   detect_calls, rects_drawn, history>>

\* the detector's data files are installed, removed or replaced between runs
ChangeCascadeData ==
    /\ pc = "idle"
    /\ \E d \in CascadeStates \ {cascade_data} : cascade_data' = d
    /\ UNCHANGED <<widgets, clock, pc, outcome, exc, locals, page,
                   detect_calls, rects_drawn, history>>

(***************************************************************************)
(* The script, lines 68-188.                                               *)
(***************************************************************************)
\* an exception that no handler of the script catches ends the run; the
\* framework shows it in place of the rest of the page
Uncaught(e, stage) ==
    /\ exc' = e
    /\ failed_at' = stage
    /\ outcome' = "uncaught"
    /\ page' = Append(page, Element("exception", 0, NoImage, e, <<>>))
    /\ pc' = "idle"

\* an exception raised inside the try block of lines 83-159
ContinueAfterError(e, stage) ==
    /\ exc' = e
    /\ failed_at' = stage
    /\ pc' = "annotate"
RaiseInTry(e, stage) ==
    /\ exc' = e
    /\ failed_at' = stage
    /\ pc' = "except"

\* lines 165-188: no file is uploaded
NoUpload ==
    /\ pc = "ingest"
    /\ uploaded_file = NoFile
    /\ page' = Append(page, Element("info", 0, NoImage, "upload_prompt", <<>>))
    /\ outcome' = "no_upload"
    /\ pc' = "idle"
    /\ UNCHANGED <<widgets, environment, exc, locals, detect_calls,
                   rects_drawn, history>>

\* the result of lines 70-73
Decoded(f) ==
    LET opened == ImageOpen(f)
    IN  IF opened.raised # "" THEN opened
        ELSE cvtColor_RGB2BGR(opened.value)

\* lines 68-80, when Image.open or the conversion to BGR raises: both are
\* outside the try block
IngestionFails ==
    /\ pc = "ingest"
    /\ uploaded_file # NoFile
    /\ Decoded(uploaded_file).raised # ""
    /\ image' = ImageOpen(uploaded_file).value
    /\ Uncaught(Decoded(uploaded_file).raised, "ingestion")
    /\ UNCHANGED <<widgets, environment, opencv_image, gray, faces,
                   result_image, bgr_color, result_pil, buf, detect_calls,
                   rects_drawn, prev_failed, last>>

\* lines 68-80
Ingest ==
    /\ pc = "ingest"
    /\ uploaded_file # NoFile
    /\ Decoded(uploaded_file).raised = ""
    /\ image' = ImageOpen(uploaded_file).value
    /\ opencv_image' = "opencv_image"
    /\ buf' = [buf EXCEPT !["opencv_image"] = Decoded(uploaded_file).value]
    /\ page' = Append(page, Element("image:original", 0, image', "", <<>>))
    /\ pc' = "detect"
    /\ UNCHANGED <<widgets, environment, outcome, exc, gray, faces,
                   result_image, bgr_color, result_pil, detect_calls,
                   rects_drawn, history>>

\* lines 90-95: the call with the current slider values
DetectFacesWithDefaults(g) == detectMultiScale(g, 13, 5)
DetectFacesByClock(g) ==
    detectMultiScale(g, scale_factor, IF clock = 0 THEN min_neighbors ELSE 1)
DetectFaces(g) == detectMultiScale(g, scale_factor, min_neighbors)

\* lines 84-95 when the detector cannot be set up.  Without the data
\* directory line 84 raises before anything else; with the directory but
\* not the file, line 84 builds an empty classifier and the call of line 90
\* raises
DetectorUnavailable ==
    /\ pc = "detect"
    /\ cascade_data # "installed"
    /\ IF cascade_data = "no_data_dir"
       THEN /\ RaiseInTry("AttributeError", "detection")
            /\ UNCHANGED <<gray, detect_calls>>
       ELSE /\ gray' = cvtColor_BGR2GRAY(buf[opencv_image])
            /\ detect_calls' = detect_calls + 1
            /\ RaiseInTry("cv2.error", "detection")
    /\ UNCHANGED <<widgets, environment, outcome, image, opencv_image, faces,
                   result_image, bgr_color, result_pil, buf, page,
                   rects_drawn, prev_failed, last>>

\* lines 84-95
Detect ==
    /\ pc = "detect"
    /\ cascade_data = "installed"
    /\ gray' = cvtColor_BGR2GRAY(buf[opencv_image])
    /\ detect_calls' = detect_calls + 1
    /\ faces' = DetectFaces(gray')
    /\ pc' = "annotate"
    /\ UNCHANGED <<widgets, environment, outcome, exc, image, opencv_image,
                   result_image, bgr_color, result_pil, buf, page,
                   rects_drawn, history>>

\* ndarray.copy(), line 98: the reference of a new buffer
SameBuffer(ref) == ref
ndarray_copy(ref) == "copy"

\* the buffers after line 98
AfterCopy == [buf EXCEPT ![ndarray_copy(opencv_image)] = buf[opencv_image]]

\* lines 98-99 when hex_to_bgr raises
ColorConversionFails ==
    /\ pc = "annotate"
    /\ hex_to_bgr(rect_color).raised # ""
    /\ result_image' = ndarray_copy(opencv_image)
    /\ buf' = AfterCopy
    /\ RaiseInTry(hex_to_bgr(rect_color).raised, "color")
    /\ UNCHANGED <<widgets, environment, outcome, image, opencv_image, gray,
                   faces, bgr_color, result_pil, page, detect_calls,
                   rects_drawn, prev_failed, last>>

\* lines 98-106
Annotate ==
    /\ pc = "annotate"
    /\ hex_to_bgr(rect_color).raised = ""
    /\ result_image' = ndarray_copy(opencv_image)
    /\ bgr_color' = hex_to_bgr(rect_color)
    /\ LET drawn == DrawLoop(AfterCopy[result_image'], faces,
                             bgr_color'.value, 0)
       IN  /\ buf' = [AfterCopy EXCEPT ![result_image'] = drawn.img]
           /\ rects_drawn' = drawn.calls
    /\ result_pil' = cvtColor_BGR2RGB(buf'[result_image'])
    /\ pc' = "render"
    /\ UNCHANGED <<widgets, environment, outcome, exc, image, opencv_image,
                   gray, faces, page, detect_calls, history>>


\* result_pil.save(img_buffer, format='PNG'), lines 138-140: PNG is lossless
PngEncode(img) ==
    [format |-> "PNG", size |-> <<Width, Height>>, mode |-> img.mode,
     px |-> img.px]

\* lines 125-128: one line per face
FaceLines(fs) ==
    [i \in 1..Len(fs) |-> Element("write:face", i, NoImage, "", fs[i])]

\* lines 156-159
VerdictAboveOne(fs) ==
    IF Len(fs) > 1
    THEN <<Element("success", Len(fs), NoImage, "", <<>>)>>
    ELSE <<Element("warning", 0, NoImage, "", <<>>)>>
Verdict(fs) ==
    IF Len(fs) > 0
    THEN <<Element("success", Len(fs), NoImage, "", <<>>)>>
    ELSE <<Element("warning", 0, NoImage, "", <<>>)>>

\* lines 108-159
Render ==
    /\ pc = "render"
    /\ page' = page
         \o <<Element("image:result", Len(faces), result_pil, "", <<>>),
              Element("metric:faces_detected", Len(faces), NoImage, "", <<>>),
              Element("metric:scale_factor", scale_factor, NoImage, "", <<>>),
              Element("metric:min_neighbors", min_neighbors, NoImage, "",
                      <<>>)>>
         \o FaceLines(faces)
         \o <<Element("download_button", clock, PngEncode(result_pil),
                      "face_detection_result", <<>>)>>
         \o Verdict(faces)
    /\ outcome' = "complete"
    /\ pc' = "idle"
    /\ UNCHANGED <<widgets, environment, exc, locals, detect_calls,
                   rects_drawn, history>>

\* lines 161-163: what the handler shows for the exception e
HandlerOutput(e) ==
    <<Element("error:loading_face_detection_model", 0, NoImage, e, <<>>),
      Element("info", 0, NoImage, "check_opencv_install", <<>>)>>

\* lines 161-163: except Exception
Except ==
    /\ pc = "except"
    /\ page' = page \o HandlerOutput(exc)
    /\ outcome' = "handled"
    /\ pc' = "idle"
    /\ UNCHANGED <<widgets, environment, exc, locals, detect_calls,
                   rects_drawn, history>>

Next ==
    \/ SetScaleFactor
    \/ SetMinNeighbors
    \/ PickColor
    \/ Upload
    \/ ClickDownload
    \/ Tick
    \/ ChangeCascadeData
    \/ NoUpload
    \/ IngestionFails
    \/ Ingest
    \/ DetectorUnavailable
    \/ Detect
    \/ ColorConversionFails
    \/ Annotate
    \/ Render
    \/ Except

Spec == Init /\ [][Next]_vars


(***************************************************************************)
(* hex_to_bgr on its own: the color string is any string over Alphabet of  *)
(* at most MaxLen characters, any '#' and six digits of SampleDigits, or   *)
(* a color whose first or last pair is any one or two of PairChars; the    *)
(* call is the only step.                                                  *)
(***************************************************************************)
Alphabet == {"#", "0", "F", "G"}
SampleDigits == {"0", "9", "a", "F"}
PairChars == {"0", "a", "F", "G", "+", "-", " ", "\t", "\n", "_", "x", "X",
              "#"}
ShortPairs == UNION { [1..n -> PairChars] : n \in 1..2 }

HexInputs ==
    UNION { [1..n -> Alphabet] : n \in 0..MaxLen }
      \cup { <<"#">> \o d : d \in [1..6 -> SampleDigits] }
      \cup { <<"#">> \o t \o <<"0", "0", "F", "F">> : t \in ShortPairs }
      \cup { <<"#", "0", "0", "F", "F">> \o t : t \in ShortPairs }

InitHex ==
    /\ rect_color \in HexInputs
    /\ pc = "call"
    /\ scale_factor = 13
    /\ min_neighbors = 5
    /\ uploaded_file = NoFile
    /\ cascade_data = "installed"
    /\ clock = 0
    /\ outcome = "running"
    /\ exc = ""
    /\ image = NoImage
    /\ opencv_image = NoRef
    /\ gray = NoImage
    /\ faces = <<>>
    /\ result_image = NoRef
    /\ bgr_color = NoColor
    /\ result_pil = NoImage
    /\ buf = NoBuffers
    /\ page = <<>>
    /\ detect_calls = 0
    /\ rects_drawn = 0
    /\ failed_at = ""
    /\ prev_failed = FALSE
    /\ last = NoLast

\* bgr_color = hex_to_bgr(rect_color), line 99, on its own
CallHexToBgr ==
    /\ pc = "call"
    /\ bgr_color' = hex_to_bgr(rect_color)
    /\ pc' = "returned"
    /\ UNCHANGED <<widgets, environment, outcome, exc, image, opencv_image,
                   gray, faces, result_image, result_pil, buf, page,
                   detect_calls, rects_drawn, history>>

NextHex == CallHexToBgr

SpecHex == InitHex /\ [][NextHex]_vars

(***************************************************************************)
(* Properties of hex_to_bgr.                                               *)
(***************************************************************************)
\* "#RRGGBB": a '#' followed by exactly six hex digits
IsHashRRGGBB(s) ==
    /\ Len(s) = 7
    /\ s[1] = "#"
    /\ \A i \in 2..7 : IsHexDigit(s[i])

PairValue(s, i) == 16 * DigitValue(s[i]) + DigitValue(s[i + 1])

\* C1: for every "#RRGGBB" hex_to_bgr returns (B, G, R), each the value in
\* 0..255 of its digit pair; "#00FF00" gives (0, 255, 0).
C1_HexToBgrOfValidColor ==
    (pc = "returned" /\ IsHashRRGGBB(rect_color)) =>
        /\ bgr_color.raised = ""
        /\ bgr_color.value = <<PairValue(rect_color, 6),
                               PairValue(rect_color, 4),
                               PairValue(rect_color, 2)>>
        /\ \A k \in 1..3 : bgr_color.value[k] \in 0..255
        /\ rect_color = Green => bgr_color.value = <<0, 255, 0>>

\* witness of C1: a color with three different channels has been converted
C1_Witness ==
    /\ pc = "returned"
    /\ rect_color = <<"#", "9", "a", "F", "F", "0", "9">>
    /\ bgr_color.value = <<9, 255, 154>>

\* the inputs the claim calls malformed: a wrong length or a non-hex digit
Malformed(s) == ~IsHashRRGGBB(s)

\* C4 as stated: every malformed input makes the call fail.
C4_EveryMalformedInputFails ==
    (pc = "returned" /\ Malformed(rect_color)) => bgr_color.raised # ""

\* what int(., 16) accepts among strings of at most two characters: one or
\* two hex digits, or one hex digit after a sign, after a blank or before one
AcceptedPair(t) ==
    \/ Len(t) = 1 /\ IsHexDigit(t[1])
    \/ /\ Len(t) = 2
       /\ \/ IsHexDigit(t[1]) /\ IsHexDigit(t[2])
          \/ t[1] \in {"+", "-", " ", "\t", "\n"} /\ IsHexDigit(t[2])
          \/ IsHexDigit(t[1]) /\ t[2] \in {" ", "\t", "\n"}

\* the position of the first character that is not '#', or Len(s) + 1
FirstAfterHashes(s) ==
    IF \E i \in 1..Len(s) : s[i] # "#"
    THEN CHOOSE i \in 1..Len(s) :
            s[i] # "#" /\ \A j \in 1..(i - 1) : s[j] = "#"
    ELSE Len(s) + 1

\* the k-th pair (k = 0, 1, 2) of the characters that follow the leading '#'s
PairAfterHashes(s, k) ==
    LET a == FirstAfterHashes(s) + 2 * k
    IN  [i \in 1..(IF a + 1 <= Len(s) THEN 2
                   ELSE IF a <= Len(s) THEN 1 ELSE 0) |-> s[a + i - 1]]

\* C4 as amended: the call fails exactly when one of the three character
\* pairs that follow the leading '#'s is missing or is not accepted by
\* int(., 16); every other input, well formed or not, yields a triple.
C4_FailsOnlyOnUnparsablePair ==
    pc = "returned" =>
        /\ bgr_color.raised \in {"", "ValueError"}
        /\ bgr_color.raised = "ValueError" <=>
             \E k \in 0..2 : ~AcceptedPair(PairAfterHashes(rect_color, k))
        /\ bgr_color.raised = "" => Len(bgr_color.value) = 3

\* witness of C4: a color string that is too long has been converted to a
\* triple without an error
C4_Witness ==
    /\ pc = "returned"
    /\ Len(rect_color) = 8
    /\ rect_color[1] = "#"
    /\ \A i \in 2..8 : IsHexDigit(rect_color[i])
    /\ bgr_color.raised = ""
    /\ Len(bgr_color.value) = 3


(***************************************************************************)
(* Properties of the script.                                               *)
(***************************************************************************)
ResultKinds ==
    {"image:result", "metric:faces_detected", "metric:scale_factor",
     "metric:min_neighbors", "write:face", "download_button", "success",
     "warning"}

\* C2: when the detector cannot be set up the run ends with the error
\* message on the page and without annotated image, statistics, coordinate
\* line, verdict or download; the detector is called at most once in the run.
C2_DetectorFailureIsReportedOnce ==
    failed_at = "detection" =>
        /\ detect_calls <= 1
        /\ exc \in {"AttributeError", "cv2.error"}
        /\ \A k \in ResultKinds : ~Has(page, k)
        /\ pc \in {"except", "idle"}
        /\ pc = "idle" =>
             /\ outcome = "handled"
             /\ Count(page, "error:loading_face_detection_model") = 1
             /\ The(page, "error:loading_face_detection_model").text = exc

\* witness of C2: the detector was called on an empty classifier, raised,
\* and the run has ended with the error on the page
C2_Witness ==
    /\ pc = "idle"
    /\ failed_at = "detection"
    /\ cascade_data = "file_missing"
    /\ detect_calls = 1
    /\ Has(page, "error:loading_face_detection_model")

\* C3 as stated: an error caused by malformed input is caught by no handler
\* and is not reported as a failure to load the detector.
C3_MalformedInputErrorIsUnhandled ==
    (pc = "idle" /\ failed_at \in {"ingestion", "color"}) =>
        /\ outcome = "uncaught"
        /\ ~Has(page, "error:loading_face_detection_model")

\* the pixels of the outlines of a list of regions
RECURSIVE Outlines(_)
Outlines(fs) ==
    IF fs = <<>> THEN {} ELSE OutlinePixels(Head(fs)) \cup Outlines(Tail(fs))

\* C5: the annotation step leaves the decoded source buffer as it was and
\* draws on another buffer, which afterwards differs from the source only at
\* pixels of the outlines of the detected regions.
C5_AnnotationLeavesOriginalUnmodified ==
    [][ (pc = "annotate" /\ pc' = "render") =>
          /\ opencv_image' = opencv_image
          /\ buf'[opencv_image] = buf[opencv_image]
          /\ result_image' # opencv_image
          /\ \A c \in Coords :
                buf'[result_image'].px[c] # buf[opencv_image].px[c]
                    => c \in Outlines(faces) ]_vars

\* witness of C5: two regions have been outlined; the result differs from
\* the source, and a pixel inside a region is untouched
C5_Witness ==
    /\ pc = "render"
    /\ Len(faces) = 2
    /\ rects_drawn = 2
    /\ buf[result_image].px[<<0, 0>>] # buf[opencv_image].px[<<0, 0>>]
    /\ buf[result_image].px[<<2, 2>>] = buf[opencv_image].px[<<2, 2>>]

\* cv2.COLOR_GRAY2BGR: the gray value in every channel
cvtColor_GRAY2BGR(img) ==
    [mode |-> "BGR",
     px |-> [c \in DOMAIN img.px |->
               <<img.px[c][1], img.px[c][1], img.px[c][1]>>]]

\* the original taken to grayscale and back to color
GrayscaleRoundTrip(img) ==
    cvtColor_BGR2RGB(cvtColor_GRAY2BGR(
        cvtColor_BGR2GRAY(cvtColor_RGB2BGR(img).value)))

\* C6 as stated: with zero regions the annotated output is the
\* grayscale-to-color round trip of the original and the count is 0.
C6_ZeroFacesGivesGrayscaleRoundTrip ==
    (pc = "idle" /\ outcome = "complete" /\ Len(faces) = 0) =>
        /\ The(page, "image:result").img = GrayscaleRoundTrip(image)
        /\ The(page, "metric:faces_detected").num = 0

\* C6 as amended: with zero regions no rectangle is drawn, the annotated
\* output has at every pixel the red, green and blue values of the decoded
\* original (the RGB to BGR to RGB round trip), and the count is 0.
C6_ZeroFacesGivesOriginalColors ==
    (pc = "idle" /\ outcome = "complete" /\ Len(faces) = 0) =>
        /\ rects_drawn = 0
        /\ The(page, "image:result").img.mode = "RGB"
        /\ \A c \in Coords :
              The(page, "image:result").img.px[c] =
                 <<image.px[c][1], image.px[c][2], image.px[c][3]>>
        /\ The(page, "image:result").num = 0
        /\ The(page, "metric:faces_detected").num = 0

\* witness of C6: a run on a color image has completed with zero regions
C6_Witness ==
    /\ pc = "idle"
    /\ outcome = "complete"
    /\ Len(faces) = 0
    /\ uploaded_file = "face.jpg"
    /\ Has(page, "image:result")
    /\ \E c \in Coords : image.px[c][1] # image.px[c][2]

\* C7: a run that repeats the run before it, with the same file, sliders
\* and color, ends with the same regions and the same annotated image,
\* whatever the clock read in either run.
C7_RepeatedRunGivesSameResult ==
    (pc = "idle" /\ outcome = "complete" /\ last.valid) =>
        /\ faces = last.faces
        /\ result_pil = last.result
        /\ The(page, "image:result").img = last.result

\* witness of C7: two runs on the same inputs at different clock readings
\* have both found faces
C7_Witness ==
    /\ pc = "idle"
    /\ outcome = "complete"
    /\ last.valid
    /\ Len(faces) > 0
    /\ The(page, "download_button").num # last.stamp

\* the annotated image computed from the widgets as they stand
AnnotatedFromWidgets ==
    LET src == Decoded(uploaded_file).value
        fs  == detectMultiScale(cvtColor_BGR2GRAY(src), scale_factor,
                                min_neighbors)
    IN  cvtColor_BGR2RGB(DrawLoop(src, fs, hex_to_bgr(rect_color).value,
                                  0).img)

FacesFromWidgets ==
    detectMultiScale(cvtColor_BGR2GRAY(Decoded(uploaded_file).value),
                     scale_factor, min_neighbors)

\* C8: every change of a widget starts a new run from an empty page, and
\* the annotated image and metrics of a completed run are those computed
\* in that run from the current file, sliders and color.
C8_DisplayIsComputedFromCurrentInputs ==
    /\ [][ widgets' # widgets =>
             /\ pc' = "ingest"
             /\ page' = <<>>
             /\ result_pil' = NoImage
             /\ faces' = <<>> ]_vars
    /\ [](  (pc = "idle" /\ outcome = "complete") =>
             /\ detect_calls = 1
             /\ Count(page, "image:result") = 1
             /\ The(page, "image:result").img = AnnotatedFromWidgets
             /\ The(page, "image:original").img = ImageOpen(uploaded_file).value
             /\ The(page, "metric:faces_detected").num = Len(FacesFromWidgets)
             /\ The(page, "metric:scale_factor").num = scale_factor
             /\ The(page, "metric:min_neighbors").num = min_neighbors )

\* witness of C8: a run has completed after every widget was changed
C8_Witness ==
    /\ pc = "idle"
    /\ outcome = "complete"
    /\ scale_factor = 11
    /\ min_neighbors = 1
    /\ rect_color = Blue
    /\ uploaded_file = "logo.png"

\* how a run ends, from the inputs it reads
ExpectedOutcome ==
    IF uploaded_file = NoFile THEN "no_upload"
    ELSE IF Decoded(uploaded_file).raised # "" THEN "uncaught"
    ELSE IF cascade_data # "installed" THEN "handled"
    ELSE IF hex_to_bgr(rect_color).raised # "" THEN "handled"
    ELSE "complete"

Interact ==
    SetScaleFactor \/ SetMinNeighbors \/ PickColor \/ Upload

\* C9: a failure ends its run and nothing is retried; the widgets stay
\* usable afterwards, the next interaction starts a run with no exception,
\* no page content and no local left over, and every run ends as its own
\* inputs decide, whether or not the run before it failed.
C9_FailuresAreScopedToTheirRun ==
    /\ [](detect_calls <= 1)
    /\ []((pc = "idle" /\ failed_at # "") => ENABLED Interact)
    /\ [][ (pc = "idle" /\ pc' # "idle") =>
             /\ pc' = "ingest"
             /\ exc' = "" /\ failed_at' = "" /\ outcome' = "running"
             /\ page' = <<>>
             /\ detect_calls' = 0 /\ rects_drawn' = 0
             /\ image' = NoImage /\ faces' = <<>> /\ result_pil' = NoImage
             /\ buf' = NoBuffers ]_vars
    /\ [][ (pc # "idle" /\ pc' = "idle") =>
             /\ outcome' = ExpectedOutcome
             /\ (failed_at' # "") = (outcome' \in {"uncaught", "handled"}) ]_vars

\* witness of C9: the run after a failed run has completed
C9_Witness ==
    /\ pc = "idle"
    /\ prev_failed
    /\ outcome = "complete"
    /\ failed_at = ""
    /\ exc = ""

\* C10: a completed run shows the count, draws the rectangles and writes
\* the coordinate lines of exactly the regions the detector returned, shows
\* the success message for one or more and the warning for none, and offers
\* the download either way; without an upload the detector is not called
\* and none of these is shown.
C10_OutputsAgreeWithRegions ==
    /\ (pc = "idle" /\ outcome = "complete") =>
          /\ The(page, "metric:faces_detected").num = Len(faces)
          /\ The(page, "image:result").num = Len(faces)
          /\ rects_drawn = Len(faces)
          /\ Count(page, "write:face") = Len(faces)
          /\ \A i \in 1..Len(faces) :
                \E j \in 1..Len(page) :
                   /\ page[j].kind = "write:face"
                   /\ page[j].num = i
                   /\ page[j].box = faces[i]
          /\ Has(page, "success") <=> Len(faces) > 0
          /\ Has(page, "warning") <=> Len(faces) = 0
          /\ Has(page, "success") => The(page, "success").num = Len(faces)
          /\ Count(page, "download_button") = 1
    /\ uploaded_file = NoFile =>
          /\ detect_calls = 0
          /\ \A k \in ResultKinds : ~Has(page, k)

\* witness of C10: a completed run with three regions
C10_Witness ==
    /\ pc = "idle"
    /\ outcome = "complete"
    /\ Len(faces) = 3
    /\ Count(page, "write:face") = 3
    /\ Has(page, "success")

=============================================================================
